---- MODULE Spec2Model ----
(***************************************************************************)
(* Model of the GET /search handler of src/index.js: the request's query   *)
(* parameters are turned into filter predicates with positional            *)
(* placeholders, an ORDER BY clause and one of three parameterized         *)
(* queries (semantic, full-text, filter-only), which is handed to the      *)
(* store together with its parameter list.                                 *)
(*                                                                         *)
(* Text that comes from the request is a sequence of one-character         *)
(* strings, so that split(",") and split(":") are computed.  A JavaScript  *)
(* value is a record: undefined, a string or a number.  The compiled SQL   *)
(* is kept as its structure (columns, WHERE conjuncts, ORDER BY keys,      *)
(* LIMIT/OFFSET placeholders) instead of its text.                         *)
(***************************************************************************)
EXTENDS Integers, Sequences, FiniteSets, TLC

VARIABLES pc, req, strategy, filters, values, paramIndex, orderBy,
          embedCalls, embedding, storeCalls, response

vars == <<pc, req, strategy, filters, values, paramIndex, orderBy,
          embedCalls, embedding, storeCalls, response>>

(* ------------------------------ values -------------------------------- *)

ABSENT == [t |-> "undefined", s |-> <<>>, n |-> 0]
Str(s) == [t |-> "string", s |-> s, n |-> 0]
Num(n) == [t |-> "number", s |-> <<>>, n |-> n]

\* JavaScript truthiness of a value
Truthy(v) ==
    \/ v.t = "string" /\ v.s # <<>>
    \/ v.t = "number" /\ v.n # 0

\* a destructuring default applies when the property is undefined
Default(v, d) == IF v = ABSENT THEN d ELSE v

\* a === "<text>"
StrictEq(v, text) == v.t = "string" /\ v.s = text

S_true == <<"t", "r", "u", "e">>
S_false == <<"f", "a", "l", "s", "e">>
S_asc == <<"a", "s", "c">>
S_desc == <<"d", "e", "s", "c">>
S_averagerating == <<"a", "v", "e", "r", "a", "g", "e", "r", "a", "t", "i", "n", "g">>
S_title == <<"t", "i", "t", "l", "e">>

DefaultLimit == 20
DefaultOffset == 0
DefaultSort == S_averagerating \o <<":">> \o S_desc

\* String.prototype.split(sep) for a one-character separator
RECURSIVE Split(_, _)
Split(s, sep) ==
    IF \E i \in 1..Len(s) : s[i] = sep
    THEN LET i == CHOOSE j \in 1..Len(s) :
                      s[j] = sep /\ \A k \in 1..(j - 1) : s[k] # sep
         IN <<SubSeq(s, 1, i - 1)>> \o Split(SubSeq(s, i + 1, Len(s)), sep)
    ELSE <<s>>

\* Array.prototype.join(sep)
RECURSIVE Join(_, _)
Join(parts, sep) ==
    IF parts = <<>> THEN <<>>
    ELSE IF Len(parts) = 1 THEN parts[1]
    ELSE parts[1] \o sep \o Join(Tail(parts), sep)

(* ---------------------- destructured parameters ----------------------- *)

Query == Default(req.query, Str(<<>>))
Tags == Default(req.tags, Str(<<>>))
Subject == Default(req.subject, Str(<<>>))
Examboard == Default(req.examboard, Str(<<>>))
Level == Default(req.level, Str(<<>>))
Type == Default(req.type, Str(<<>>))
Limit == Default(req.limit, Num(DefaultLimit))
Offset == Default(req.offset, Num(DefaultOffset))
Sort == Default(req.sort, Str(DefaultSort))
Fuzzy == Default(req.fuzzy, Str(S_true))
Semantic == Default(req.semantic, Str(S_false))

\* tags ? tags.toString().split(",") : []
ParsedTags == IF Truthy(Tags) THEN Split(Tags.s, ",") ELSE <<>>

(* --------------------------- filter building -------------------------- *)

\* one placeholder per tag, numbered from the cursor, joined by AND
TagFragment(tags, cursor) ==
    [op |-> "AND",
     atoms |-> [i \in 1..Len(tags) |->
                  [kind |-> "contains", col |-> "tags", ph |-> cursor + i - 1]]]

\* values.push(...parsedTags)
TagValues(tags) == [i \in 1..Len(tags) |-> Str(tags[i])]

\* AfterTags with the cursor advanced once for the whole tags block
AfterTagsOneSlot(tags) ==
    IF Len(tags) > 0
    THEN [filters |-> <<TagFragment(tags, 1)>>,
          values |-> TagValues(tags),
          paramIndex |-> 2]
    ELSE [filters |-> <<>>, values |-> <<>>, paramIndex |-> 1]

\* the predicate set after the tags block
AfterTags(tags) ==
    IF Len(tags) > 0
    THEN [filters |-> <<TagFragment(tags, 1)>>,
          values |-> TagValues(tags),
          paramIndex |-> 1 + Len(tags)]
    ELSE [filters |-> <<>>, values |-> <<>>, paramIndex |-> 1]

\* if (v) { filters.push(`"col" = $${paramIndex++}`); values.push(v); }
AddScalar(ps, col, v) ==
    IF Truthy(v)
    THEN [filters |-> Append(ps.filters,
                             [op |-> "AND",
                              atoms |-> <<[kind |-> "eq", col |-> col,
                                           ph |-> ps.paramIndex]>>]),
          values |-> Append(ps.values, v),
          paramIndex |-> ps.paramIndex + 1]
    ELSE ps

\* AddScalars with examboard handled before subject
AddScalarsSwapped(ps, subject, examboard, level, type) ==
    AddScalar(AddScalar(AddScalar(AddScalar(ps,
        "examboard", examboard), "subject", subject), "level", level),
        "type", type)

\* the four scalar filters, in the order of the source
AddScalars(ps, subject, examboard, level, type) ==
    AddScalar(AddScalar(AddScalar(AddScalar(ps,
        "subject", subject), "examboard", examboard), "level", level),
        "type", type)

FilterSet == AddScalars(AfterTags(ParsedTags), Subject, Examboard, Level, Type)

(* ------------------------------ sorting ------------------------------- *)

SortParts == Split(Sort.s, ":")
SortField == SortParts[1]
SortDir == IF Len(SortParts) >= 2 THEN Str(SortParts[2]) ELSE ABSENT

ValidSortDir ==
    IF StrictEq(SortDir, S_asc) \/ StrictEq(SortDir, S_desc)
    THEN SortDir.s ELSE S_desc

\* sortField ? `"${sortField}" ${validSortDir}` : `"averagerating" DESC`
OrderByClause ==
    IF SortField # <<>>
    THEN [field |-> SortField, dir |-> ValidSortDir]
    ELSE [field |-> S_averagerating, dir |-> <<"D", "E", "S", "C">>]

(* ------------------------- strategy selection ------------------------- *)

\* SemanticSelected without the test of query
SemanticIgnoresQuery == StrictEq(Semantic, S_true)

SemanticSelected == StrictEq(Semantic, S_true) /\ Truthy(Query)
FullTextSelected == ~SemanticSelected /\ Truthy(Query)
FilterOnlySelected == ~SemanticSelected /\ ~Truthy(Query)

FuzzyOn == StrictEq(Fuzzy, S_true)

(* --------------------------- query compilers -------------------------- *)

NoColumn == <<>>

\* `[${embedding.join(",")}]`
EmbeddingLiteral(vec) == Str(<<"[">> \o Join(vec, <<",">>) \o <<"]">>)

\* SemanticSql with LIMIT sharing the slot of the vector
SemanticSqlSharedSlot(where, order, cursor) ==
    [cols |-> <<[name |-> "semantic_score", fn |-> "1 - (embedding <-> $)",
                 ph |-> cursor]>>,
     where |-> where,
     scores |-> <<"semantic_score">>,
     order |-> order,
     limit |-> cursor,
     offset |-> cursor + 1]

SemanticSql(where, order, cursor) ==
    [cols |-> <<[name |-> "semantic_score", fn |-> "1 - (embedding <-> $)",
                 ph |-> cursor]>>,
     where |-> where,
     scores |-> <<"semantic_score">>,
     order |-> order,
     limit |-> cursor + 1,
     offset |-> cursor + 2]

SemanticValues(vals, literal, limit, offset) ==
    vals \o <<literal, limit, offset>>

\* SearchCondition with the trigram match reusing the slot of the full-text match
SearchConditionReusesSlot(cursor, fuzzyOn) ==
    IF fuzzyOn
    THEN [op |-> "OR",
          atoms |-> <<[kind |-> "fts", col |-> "search_tsv", ph |-> cursor],
                      [kind |-> "trgm", col |-> "title", ph |-> cursor]>>]
    ELSE [op |-> "AND",
          atoms |-> <<[kind |-> "fts", col |-> "search_tsv", ph |-> cursor]>>]

\* the full-text match, OR'd with the trigram match when fuzzy === "true"
SearchCondition(cursor, fuzzyOn) ==
    IF fuzzyOn
    THEN [op |-> "OR",
          atoms |-> <<[kind |-> "fts", col |-> "search_tsv", ph |-> cursor],
                      [kind |-> "trgm", col |-> "title", ph |-> cursor + 1]>>]
    ELSE [op |-> "AND",
          atoms |-> <<[kind |-> "fts", col |-> "search_tsv", ph |-> cursor]>>]

\* the cursor after the search condition's values were pushed
SearchCursor(cursor, fuzzyOn) == IF fuzzyOn THEN cursor + 2 ELSE cursor + 1

SearchValues(vals, query, fuzzyOn) ==
    IF fuzzyOn THEN vals \o <<query, query>> ELSE vals \o <<query>>

\* the rank and fuzzy_score columns of the full-text query
FullTextColumns ==
    <<[name |-> "rank", fn |-> "ts_rank", ph |-> 1],
      [name |-> "fuzzy_score", fn |-> "similarity", ph |-> 1]>>

FullTextSql(where, order, cursor, fuzzyOn) ==
    [cols |-> FullTextColumns,
     where |-> Append(where, SearchCondition(cursor, fuzzyOn)),
     scores |-> <<"rank", "fuzzy_score">>,
     order |-> order,
     limit |-> SearchCursor(cursor, fuzzyOn),
     offset |-> SearchCursor(cursor, fuzzyOn) + 1]

FilterOnlySql(where, order, cursor) ==
    [cols |-> NoColumn,
     where |-> where,
     scores |-> <<>>,
     order |-> order,
     limit |-> cursor,
     offset |-> cursor + 1]

PageValues(vals, limit, offset) == vals \o <<limit, offset>>

(* ------------------------------ responses ----------------------------- *)

NoResponse == [status |-> 0, fuzzyEnabled |-> FALSE, semanticEnabled |-> FALSE,
               totalHits |-> 0]

Envelope(nrows) ==
    [status |-> 200,
     fuzzyEnabled |-> StrictEq(Fuzzy, S_true),
     semanticEnabled |-> StrictEq(Semantic, S_true),
     totalHits |-> nrows]

ErrorResponse == [status |-> 500, fuzzyEnabled |-> FALSE,
                  semanticEnabled |-> FALSE, totalHits |-> 0]

(* ------------------------------- inputs ------------------------------- *)

\* longest tags string of a request
MaxTagsLen == 3
\* most rows the store returns
MaxRows == 1

TagChars == {"a", ","}
TagStrings == UNION {[1..n -> TagChars] : n \in 0..MaxTagsLen}

AbsentOrEmpty == {ABSENT, Str(<<>>)}

TagsInputs == {ABSENT} \cup {Str(s) : s \in TagStrings}
SubjectInputs == {ABSENT, Str(<<"M">>)}
ExamboardInputs == {Str(<<>>), Str(<<"A">>)}
LevelInputs == {ABSENT, Str(<<"G">>)}
TypeInputs == {Str(<<>>), Str(<<"N">>)}
QueryInputs == AbsentOrEmpty \cup {Str(<<"q">>)}
FuzzyInputs == AbsentOrEmpty \cup {Str(S_true), Str(S_false)}
SemanticInputs == AbsentOrEmpty \cup {Str(S_true), Str(S_false)}
\* limit and offset as the query string gives them
PageInputs == {<<ABSENT, ABSENT>>, <<Str(<<>>), Str(<<>>)>>,
               <<Str(<<"5">>), Str(<<"7">>)>>}
SortInputs == {ABSENT, Str(<<>>), Str(S_title \o <<":">> \o S_asc),
               Str(<<"x">>), Str(<<"x", ":", "u", "p">>)}

\* every combination of tags, scalar filters and strategy flags, with the
\* paging and the sort left out of the request
FilterRequests ==
    {[query |-> q, tags |-> tg, subject |-> su, examboard |-> ex,
      level |-> le, type |-> ty, limit |-> ABSENT, offset |-> ABSENT,
      sort |-> ABSENT, fuzzy |-> fu, semantic |-> se] :
        q \in {Str(<<>>), Str(<<"q">>)}, tg \in TagsInputs,
        su \in SubjectInputs, ex \in ExamboardInputs, le \in LevelInputs,
        ty \in TypeInputs, fu \in {ABSENT, Str(S_true), Str(S_false)},
        se \in {Str(S_true), Str(S_false)}}

\* every combination of paging, sort and strategy flags, absent or empty
\* included, with at most a tag and a subject as filters
OptionRequests ==
    {[query |-> q, tags |-> tg, subject |-> su, examboard |-> ABSENT,
      level |-> ABSENT, type |-> ABSENT, limit |-> pg[1], offset |-> pg[2],
      sort |-> so, fuzzy |-> fu, semantic |-> se] :
        q \in QueryInputs, tg \in {ABSENT, Str(<<"a">>)},
        su \in SubjectInputs, pg \in PageInputs, so \in SortInputs,
        fu \in FuzzyInputs, se \in SemanticInputs}

Requests == FilterRequests \cup OptionRequests

\* the vector the embedding service answers with, each component as text
Embeddings == {<<<<"0", ".", "1">>, <<"0", ".", "2">>>>}

NoRequest ==
    [query |-> ABSENT, tags |-> ABSENT, subject |-> ABSENT,
     examboard |-> ABSENT, level |-> ABSENT, type |-> ABSENT,
     limit |-> ABSENT, offset |-> ABSENT, sort |-> ABSENT,
     fuzzy |-> ABSENT, semantic |-> ABSENT]

NoOrderBy == [field |-> <<>>, dir |-> <<>>]

(* ------------------------------- actions ------------------------------ *)

Init ==
    /\ pc = "idle"
    /\ req = NoRequest
    /\ strategy = "none"
    /\ filters = <<>>
    /\ values = <<>>
    /\ paramIndex = 1
    /\ orderBy = NoOrderBy
    /\ embedCalls = <<>>
    /\ embedding = "none"
    /\ storeCalls = <<>>
    /\ response = NoResponse

\* a request arrives: request.query is destructured, the handler's locals are fresh
Receive ==
    /\ pc = "idle"
    /\ req' \in Requests
    /\ pc' = "start"
    /\ UNCHANGED <<strategy, filters, values, paramIndex, orderBy,
                   embedCalls, embedding, storeCalls, response>>

\* the WHERE filters and the ORDER BY clause are built
BuildFilters ==
    /\ pc = "start"
    /\ filters' = FilterSet.filters
    /\ values' = FilterSet.values
    /\ paramIndex' = FilterSet.paramIndex
    /\ orderBy' = OrderByClause
    /\ pc' = "built"
    /\ UNCHANGED <<req, strategy, embedCalls, embedding, storeCalls, response>>

\* semantic branch: the embedding of query is requested and awaited
StartSemantic ==
    /\ pc = "built"
    /\ SemanticSelected
    /\ strategy' = "semantic"
    /\ embedCalls' = Append(embedCalls, Query)
    /\ embedding' = "pending"
    /\ pc' = "embedding"
    /\ UNCHANGED <<req, filters, values, paramIndex, orderBy, storeCalls, response>>

\* the embedding arrives: the semantic query is compiled and sent to the store
EmbeddingResolves ==
    /\ pc = "embedding"
    /\ \E e \in Embeddings :
          /\ values' = SemanticValues(values, EmbeddingLiteral(e), Limit, Offset)
          /\ storeCalls' = Append(storeCalls,
                [sql |-> SemanticSql(filters, orderBy, paramIndex),
                 values |-> values'])
    /\ embedding' = "resolved"
    /\ pc' = "querying"
    /\ UNCHANGED <<req, strategy, filters, paramIndex, orderBy, embedCalls, response>>

\* EmbeddingRejects degrading to the full-text query instead of failing
EmbeddingRejectsFallsBack ==
    /\ pc = "embedding"
    /\ embedding' = "rejected"
    /\ strategy' = "fulltext"
    /\ paramIndex' = SearchCursor(paramIndex, FuzzyOn)
    /\ values' = PageValues(SearchValues(values, Query, FuzzyOn), Limit, Offset)
    /\ storeCalls' = Append(storeCalls,
          [sql |-> FullTextSql(filters, orderBy, paramIndex, FuzzyOn),
           values |-> values'])
    /\ pc' = "querying"
    /\ UNCHANGED <<req, filters, orderBy, embedCalls, response>>

\* the embedding call throws: the catch block answers 500
EmbeddingRejects ==
    /\ pc = "embedding"
    /\ embedding' = "rejected"
    /\ response' = ErrorResponse
    /\ pc' = "done"
    /\ UNCHANGED <<req, strategy, filters, values, paramIndex, orderBy,
                   embedCalls, storeCalls>>

\* full-text branch: the query is compiled and sent to the store
FullText ==
    /\ pc = "built"
    /\ FullTextSelected
    /\ strategy' = "fulltext"
    /\ paramIndex' = SearchCursor(paramIndex, FuzzyOn)
    /\ values' = PageValues(SearchValues(values, Query, FuzzyOn), Limit, Offset)
    /\ storeCalls' = Append(storeCalls,
          [sql |-> FullTextSql(filters, orderBy, paramIndex, FuzzyOn),
           values |-> values'])
    /\ pc' = "querying"
    /\ UNCHANGED <<req, filters, orderBy, embedCalls, embedding, response>>

\* no query: the filtered, sorted listing is compiled and sent to the store
FilterOnly ==
    /\ pc = "built"
    /\ FilterOnlySelected
    /\ strategy' = "filter"
    /\ values' = PageValues(values, Limit, Offset)
    /\ storeCalls' = Append(storeCalls,
          [sql |-> FilterOnlySql(filters, orderBy, paramIndex),
           values |-> values'])
    /\ pc' = "querying"
    /\ UNCHANGED <<req, filters, paramIndex, orderBy, embedCalls, embedding,
                   response>>

\* the store answers with rows: the result envelope is returned
StoreResolves ==
    /\ pc = "querying"
    /\ \E n \in 0..MaxRows : response' = Envelope(n)
    /\ pc' = "done"
    /\ UNCHANGED <<req, strategy, filters, values, paramIndex, orderBy,
                   embedCalls, embedding, storeCalls>>

\* the store rejects the query: the catch block answers 500
StoreRejects ==
    /\ pc = "querying"
    /\ response' = ErrorResponse
    /\ pc' = "done"
    /\ UNCHANGED <<req, strategy, filters, values, paramIndex, orderBy,
                   embedCalls, embedding, storeCalls>>

\* the reply is sent and the handler's locals are gone
Return ==
    /\ pc = "done"
    /\ pc' = "idle"
    /\ req' = NoRequest
    /\ strategy' = "none"
    /\ filters' = <<>>
    /\ values' = <<>>
    /\ paramIndex' = 1
    /\ orderBy' = NoOrderBy
    /\ embedCalls' = <<>>
    /\ embedding' = "none"
    /\ storeCalls' = <<>>
    /\ response' = NoResponse

Next ==
    \/ Receive
    \/ BuildFilters
    \/ StartSemantic
    \/ EmbeddingResolves
    \/ EmbeddingRejects
    \/ FullText
    \/ FilterOnly
    \/ StoreResolves
    \/ StoreRejects
    \/ Return

Spec == Init /\ [][Next]_vars

(* ------------------------------- claims ------------------------------- *)

Range(f) == {f[i] : i \in DOMAIN f}

\* the field is in the request and is not the empty string
Given(v) == v \notin AbsentOrEmpty

\* the atomic predicates of a WHERE clause, left to right
RECURSIVE AtomSeq(_)
AtomSeq(frags) ==
    IF frags = <<>> THEN <<>> ELSE Head(frags).atoms \o AtomSeq(Tail(frags))

\* every placeholder index that occurs in a compiled query
Placeholders(sql) ==
    {c.ph : c \in Range(sql.cols)}
        \cup {a.ph : a \in Range(AtomSeq(sql.where))}
        \cup {sql.limit, sql.offset}

Sent == storeCalls # <<>>
Call == storeCalls[1]

CountChar(s, c) == Cardinality({i \in 1..Len(s) : s[i] = c})

ExpectedTagCount ==
    IF Given(req.tags) THEN CountChar(req.tags.s, ",") + 1 ELSE 0

ScalarPairs ==
    <<[col |-> "subject", v |-> req.subject],
      [col |-> "examboard", v |-> req.examboard],
      [col |-> "level", v |-> req.level],
      [col |-> "type", v |-> req.type]>>

PairGiven(p) == Given(p.v)

ExpectedScalars == SelectSeq(ScalarPairs, PairGiven)

\* C1: in every query handed to the store the placeholders that occur are
\* exactly $1..$N, N the length of the parameter list, and limit and offset
\* are the last two parameters, referenced by LIMIT $(N-1) OFFSET $N.
C1_PlaceholdersMatchParameters ==
    \A i \in DOMAIN storeCalls :
        LET c == storeCalls[i]
            N == Len(c.values)
        IN /\ N >= 2
           /\ Placeholders(c.sql) = 1..N
           /\ c.sql.limit = N - 1
           /\ c.sql.offset = N
           /\ c.values[N - 1] = Limit
           /\ c.values[N] = Offset

C1_Witness ==
    /\ Sent
    /\ strategy = "semantic"
    /\ Len(Call.values) >= 9

\* C2: one strategy per request: semantic when semantic is "true" and query
\* is non-empty, full-text when query is non-empty otherwise, filter-only
\* when query is empty; with an empty query the embedding service is not
\* called and the query has no rank, fuzzy_score or semantic_score column.
C2_OneStrategy ==
    LET queryGiven == Given(req.query)
        semanticAsked == req.semantic = Str(S_true)
    IN /\ Len(storeCalls) <= 1
       /\ pc \in {"idle", "start", "built"} => strategy = "none"
       /\ pc \in {"embedding", "querying", "done"} =>
             strategy = IF semanticAsked /\ queryGiven THEN "semantic"
                        ELSE IF queryGiven THEN "fulltext" ELSE "filter"
       /\ Sent =>
             Call.sql.scores = CASE strategy = "semantic" -> <<"semantic_score">>
                                 [] strategy = "fulltext" -> <<"rank", "fuzzy_score">>
                                 [] OTHER -> <<>>
       /\ ~queryGiven =>
             /\ embedCalls = <<>>
             /\ Sent => Call.sql.cols = <<>> /\ Call.sql.scores = <<>>

C2_Witness ==
    /\ Sent
    /\ strategy = "filter"
    /\ req.semantic = Str(S_true)
    /\ req.fuzzy = Str(S_true)

\* C4: in the semantic strategy the embedding service is called once, with
\* query, before any store query; when the call fails the store is not
\* queried, nothing is compiled in its place and the request ends with the
\* error response.
C4_EmbeddingFailsFast ==
    /\ Len(embedCalls) <= 1
    /\ strategy = "semantic" => embedCalls = <<req.query>>
    /\ embedding = "pending" => storeCalls = <<>>
    /\ (strategy = "semantic" /\ Sent) => embedding = "resolved"
    /\ embedding = "rejected" =>
          /\ storeCalls = <<>>
          /\ strategy = "semantic"
          /\ pc = "done"
          /\ response.status = 500

C4_Witness ==
    /\ embedding = "rejected"
    /\ response.status = 500
    /\ Given(req.tags)

\* C5: once the filters are built and before a strategy branch runs, the
\* cursor is 1 + the number of values appended, that number being the number
\* of tags plus the number of non-empty scalar filters, and every filter
\* predicate has its own bound value.
C5_CursorAfterFilters ==
    pc = "built" =>
        /\ Len(values) = ExpectedTagCount + Len(ExpectedScalars)
        /\ paramIndex = 1 + Len(values)
        /\ Len(AtomSeq(filters)) = Len(values)
        /\ {a.ph : a \in Range(AtomSeq(filters))} = 1..Len(values)

C5_Witness ==
    /\ pc = "built"
    /\ req.tags = Str(<<",", ",">>)
    /\ paramIndex = 8

\* C6: the filter values are the tags in input order, verbatim, then the
\* non-empty scalar filters in the order subject, examboard, level, type;
\* the k-th predicate references $k, bound to the k-th value, and the
\* predicates are joined by AND.
C6_FilterOrder ==
    pc = "built" =>
        LET n == ExpectedTagCount
            atoms == AtomSeq(filters)
        IN /\ Len(values) = n + Len(ExpectedScalars)
           /\ Len(atoms) = Len(values)
           /\ n > 0 => Join([i \in 1..n |-> values[i].s], <<",">>) = req.tags.s
           /\ \A i \in 1..n :
                 /\ values[i].t = "string"
                 /\ "," \notin Range(values[i].s)
                 /\ atoms[i] = [kind |-> "contains", col |-> "tags", ph |-> i]
           /\ \A k \in 1..Len(ExpectedScalars) :
                 /\ values[n + k] = ExpectedScalars[k].v
                 /\ atoms[n + k] = [kind |-> "eq", col |-> ExpectedScalars[k].col,
                                    ph |-> n + k]
           /\ \A i \in DOMAIN filters : filters[i].op = "AND"

C6_Witness ==
    /\ pc = "built"
    /\ req.tags = Str(<<",", "a">>)
    /\ Given(req.subject)
    /\ Given(req.examboard)
    /\ Given(req.type)

\* C8: in the full-text strategy the text predicate is the full-text match
\* bound to query, OR'd in one group with the trigram match on title bound
\* to query through a second slot when fuzzy is enabled; it follows the
\* filter predicates, and the parameters are the filter values, query (once
\* or twice), limit, offset.
C8_FullTextPredicate ==
    (strategy = "fulltext" /\ Sent) =>
        LET k == Len(AtomSeq(filters))
            fuzzyOn == req.fuzzy \in {ABSENT, Str(S_true)}
            fts == [kind |-> "fts", col |-> "search_tsv", ph |-> k + 1]
            trgm == [kind |-> "trgm", col |-> "title", ph |-> k + 2]
            text == IF fuzzyOn THEN [op |-> "OR", atoms |-> <<fts, trgm>>]
                    ELSE [op |-> "AND", atoms |-> <<fts>>]
            tail == IF fuzzyOn THEN <<req.query, req.query, Limit, Offset>>
                    ELSE <<req.query, Limit, Offset>>
        IN /\ Call.sql.where = filters \o <<text>>
           /\ Len(Call.values) = k + Len(tail)
           /\ SubSeq(Call.values, k + 1, Len(Call.values)) = tail
           /\ \A a \in Range(text.atoms) : Call.values[a.ph] = req.query

C8_Witness ==
    /\ strategy = "fulltext"
    /\ Sent
    /\ req.fuzzy = ABSENT
    /\ Len(filters) >= 2

S_subject == <<"s", "u", "b", "j", "e", "c", "t">>
S_examboard == <<"e", "x", "a", "m", "b", "o", "a", "r", "d">>
S_level == <<"l", "e", "v", "e", "l">>
S_type == <<"t", "y", "p", "e">>

AllowedSortFields ==
    {S_subject, S_examboard, S_level, S_type, S_averagerating, S_title}

\* C3: a request whose sort field is outside the allow-list is rejected as
\* an invalid request: neither the embedding service nor the store is
\* reached and the field's text is not in the ORDER BY clause.
C3_SortAllowList ==
    (pc \notin {"idle", "start"} /\ SortField \notin AllowedSortFields \cup {<<>>}) =>
        /\ embedCalls = <<>>
        /\ storeCalls = <<>>
        /\ orderBy.field # SortField
        /\ pc = "done" => response.status = 400

\* C7: a field that is absent or the empty string takes its default: limit
\* 20, offset 0, fuzzy enabled, semantic disabled; fuzzy="" with a query
\* compiles the trigram condition and reports fuzzyEnabled true, limit=""
\* binds 20.
C7_EmptyTakesDefault ==
    /\ (Sent /\ req.limit \in AbsentOrEmpty) =>
          Call.values[Len(Call.values) - 1] = Num(DefaultLimit)
    /\ (Sent /\ req.offset \in AbsentOrEmpty) =>
          Call.values[Len(Call.values)] = Num(DefaultOffset)
    /\ (Sent /\ strategy = "fulltext" /\ req.fuzzy \in AbsentOrEmpty) =>
          \E a \in Range(AtomSeq(Call.sql.where)) : a.kind = "trgm"
    /\ (response.status = 200 /\ req.fuzzy \in AbsentOrEmpty) =>
          response.fuzzyEnabled
    /\ (response.status = 200 /\ req.semantic \in AbsentOrEmpty) =>
          ~response.semanticEnabled
    /\ (pc \notin {"idle", "start"} /\ req.sort \in AbsentOrEmpty) =>
          orderBy.field = S_averagerating

\* C9: in the full-text strategy with fuzzy disabled the fuzzy score used as
\* the second ordering key is 0 for every row: the fuzzy_score column is not
\* the similarity of the title.
C9_FuzzyScoreZeroWhenDisabled ==
    (strategy = "fulltext" /\ Sent /\ ~FuzzyOn) =>
        \A c \in Range(Call.sql.cols) :
            c.name = "fuzzy_score" => c.fn # "similarity"

\* C10: in the full-text strategy every placeholder inside ts_rank(...) and
\* similarity(...) is bound to the value of query, whatever the filters.
C10_ScoresBoundToQuery ==
    (strategy = "fulltext" /\ Sent) =>
        \A c \in Range(Call.sql.cols) : Call.values[c.ph] = req.query

====
